---- MODULE Spec2Model ----
(***************************************************************************)
(* Model of ui/app/models/pki/action.js: the PkiActionModel record, its    *)
(* attribute defaults, its validation rules and its capability getters.    *)
(***************************************************************************)
EXTENDS Integers, Sequences, FiniteSets, TLC

VARIABLES
    actionType,    \* @tracked actionType
    attrs,         \* attribute name -> value written on the record, or NotSet
    backend,       \* secretMountPath.currentPath
    caps,          \* capability property -> cached capability result, or NotResolved
    submitted,     \* a submission of this record has succeeded
    directWrites,  \* response attributes written by set() since creation / last success
    lastOp,        \* name of the last operation
    result         \* value returned by the last operation

vars == <<actionType, attrs, backend, caps, submitted, directWrites, lastOp, result>>

---------------------------------------------------------------------------
(* JavaScript values: a type tag and a printed payload *)

Str(s) == <<"string", s>>
Num(s) == <<"number", s>>
Bool(s) == <<"boolean", s>>
Undefined == <<"undefined", "">>
NotSet == <<"notset", "">>

---------------------------------------------------------------------------
(* The attributes declared by the class *)

RequestAttrs ==
    {"pemBundle", "type", "issuerName", "keyName", "keyRef", "commonName",
     "altNames", "ipSans", "uriSans", "otherSans", "format", "privateKeyFormat",
     "keyType", "keyBits", "maxPathLength", "excludeCnFromSans",
     "permittedDnsDomains", "ou", "organization", "country", "locality",
     "province", "streetAddress", "postalCode", "subjectSerialNumber",
     "addBasicConstraints", "notBeforeDuration", "managedKeyName",
     "managedKeyId", "customTtl", "ttl", "notAfter", "csr", "caChain",
     "privateKey"}

ResponseAttrs ==
    {"parsedCertificate", "importedIssuers", "importedKeys", "mapping",
     "serialNumber", "issuerId", "keyId", "privateKeyType", "certificate",
     "issuingCa"}

Attrs == RequestAttrs \cup ResponseAttrs

\* variants of the defaults table with a plausible slip each
defaultValue_numericKeyBits ==
    [keyRef            |-> Str("default"),
     format            |-> Str("pem"),
     privateKeyFormat  |-> Str("der"),
     keyType           |-> Str("rsa"),
     keyBits           |-> Num("0"),
     maxPathLength     |-> Num("-1"),
     excludeCnFromSans |-> Bool("false"),
     notBeforeDuration |-> Str("30s")]

defaultValue_basicConstraints ==
    [keyRef              |-> Str("default"),
     format              |-> Str("pem"),
     privateKeyFormat    |-> Str("der"),
     keyType             |-> Str("rsa"),
     keyBits             |-> Str("0"),
     maxPathLength       |-> Num("-1"),
     excludeCnFromSans   |-> Bool("false"),
     addBasicConstraints |-> Bool("false"),
     notBeforeDuration   |-> Str("30s")]

\* the defaultValue option of each @attr that has one
defaultValue ==
    [keyRef            |-> Str("default"),
     format            |-> Str("pem"),
     privateKeyFormat  |-> Str("der"),
     keyType           |-> Str("rsa"),
     keyBits           |-> Str("0"),
     maxPathLength     |-> Num("-1"),
     excludeCnFromSans |-> Bool("false"),
     notBeforeDuration |-> Str("30s")]

\* reading an attribute: the written value, else the declared default, else undefined
Get(f) ==
    IF attrs[f] # NotSet THEN attrs[f]
    ELSE IF f \in DOMAIN defaultValue THEN defaultValue[f]
    ELSE Undefined

---------------------------------------------------------------------------
(* Validation rules *)

ActionTypes ==
    {"import-bundle", "generate-root", "generate-csr", "rotate-root"}

\* what a validator sees of the record
ModelView ==
    [actionType |-> actionType,
     type       |-> Get("type"),
     commonName |-> Get("commonName"),
     issuerName |-> Get("issuerName"),
     keyName    |-> Get("keyName")]

\* a value passes the presence rule unless it is absent or empty
presence(value) == value # Undefined /\ value # Str("")

\* variants of the validators with a plausible slip each
issuerNameValidator_noRotate(model) ==
    IF model.actionType = Str("generate-root") /\ model.issuerName = Str("default")
    THEN FALSE
    ELSE TRUE

issuerNameValidator_anyAction(model) ==
    IF model.issuerName = Str("default") THEN FALSE ELSE TRUE

issuerNameValidator_or(model) ==
    IF (model.actionType = Str("generate-root") \/ model.actionType = Str("rotate-root"))
       \/ model.issuerName = Str("default")
    THEN FALSE
    ELSE TRUE

issuerNameValidator(model) ==
    IF (model.actionType = Str("generate-root") \/ model.actionType = Str("rotate-root"))
       /\ model.issuerName = Str("default")
    THEN FALSE
    ELSE TRUE

keyNameValidator_rootOnly(model) ==
    IF (model.actionType = Str("generate-root") \/ model.actionType = Str("rotate-root"))
       /\ model.keyName = Str("default")
    THEN FALSE
    ELSE TRUE

keyNameValidator(model) ==
    IF model.keyName = Str("default") THEN FALSE ELSE TRUE

validations_noCommonName ==
    {[field |-> "type", type |-> "presence", message |-> "Type is required."],
     [field |-> "issuerName", type |-> "validator",
      message |-> "Issuer name must be unique across all issuers and not be the reserved value 'default'."],
     [field |-> "keyName", type |-> "validator",
      message |-> "Key name cannot be the reserved value 'default'"]}

\* the validations object: one rule per validated attribute
validations ==
    {[field |-> "type", type |-> "presence", message |-> "Type is required."],
     [field |-> "commonName", type |-> "presence", message |-> "Common name is required."],
     [field |-> "issuerName", type |-> "validator",
      message |-> "Issuer name must be unique across all issuers and not be the reserved value 'default'."],
     [field |-> "keyName", type |-> "validator",
      message |-> "Key name cannot be the reserved value 'default'"]}

\* does the record pass one rule
Passes(rule, model) ==
    IF rule.type = "presence" THEN presence(model[rule.field])
    ELSE IF rule.field = "issuerName" THEN issuerNameValidator(model)
    ELSE keyNameValidator(model)

\* the error kind a failed rule stands for
ErrorKind(rule) ==
    IF rule.type = "presence" THEN "MissingRequiredField" ELSE "ReservedValue"

\* validate(): the failures of all rules, and validity
validate(model) ==
    LET failures == {[field |-> r.field, kind |-> ErrorKind(r), message |-> r.message] :
                        r \in {q \in validations : ~Passes(q, model)}}
    IN  [isValid |-> failures = {}, failures |-> failures]

NoResult ==
    [isValid |-> TRUE, failures |-> {}, attr |-> "", value |-> Undefined,
     cap |-> "", flag |-> FALSE]

---------------------------------------------------------------------------
(* Capability paths and flags *)

CapabilityPaths ==
    {"importBundlePath", "generateIssuerRootPath", "generateIssuerCsrPath", "crossSignPath"}

Flags ==
    {"canImportBundle", "canGenerateIssuerRoot", "canGenerateIssuerIntermediate",
     "canCrossSign"}

NotResolved == <<>>

\* a value as a path segment
Segment(v) == IF v \in {Undefined, NotSet} THEN "undefined" ELSE v[2]

\* the four apiPath templates, as sequences of path segments
importBundlePath(b, t) == <<b, "issuers", "import", "bundle">>

generateIssuerRootPath_noType(b, t) == <<b, "issuers", "generate", "root">>

generateIssuerRootPath(b, t) == <<b, "issuers", "generate", "root", Segment(t)>>

generateIssuerCsrPath(b, t) == <<b, "issuers", "generate", "intermediate", Segment(t)>>

crossSignPath(b, t) == <<b, "issuers", "cross-sign">>

PathOf(c, b, t) ==
    CASE c = "importBundlePath"       -> importBundlePath(b, t)
      [] c = "generateIssuerRootPath" -> generateIssuerRootPath(b, t)
      [] c = "generateIssuerCsrPath"  -> generateIssuerCsrPath(b, t)
      [] c = "crossSignPath"          -> crossSignPath(b, t)

\* lazyCapabilities: the capability result of a property, queried on first access
lazyCapabilities(c) ==
    IF caps[c] # NotResolved THEN caps[c]
    ELSE [path |-> PathOf(c, backend, Get("type")), state |-> "pending",
          canCreate |-> Undefined, queries |-> 1, first |-> FALSE]

\* proxy.get('canCreate'): the answer once it has arrived, undefined otherwise
getCanCreate(proxy) ==
    IF proxy.state = "fulfilled" THEN proxy.canCreate ELSE Undefined

\* variant: the intermediate flag reads the root path's result
FlagPath_copyPaste(flag) ==
    CASE flag = "canImportBundle"               -> "importBundlePath"
      [] flag = "canGenerateIssuerRoot"         -> "generateIssuerRootPath"
      [] flag = "canGenerateIssuerIntermediate" -> "generateIssuerRootPath"
      [] flag = "canCrossSign"                  -> "crossSignPath"

\* the capability property each getter reads
FlagPath(flag) ==
    CASE flag = "canImportBundle"               -> "importBundlePath"
      [] flag = "canGenerateIssuerRoot"         -> "generateIssuerRootPath"
      [] flag = "canGenerateIssuerIntermediate" -> "generateIssuerCsrPath"
      [] flag = "canCrossSign"                  -> "crossSignPath"

\* value === true
IsTrue(v) == v = Bool("true")

\* what the oracle may answer for canCreate
OracleAnswers == {Bool("true"), Bool("false"), Undefined}

BooleanAnswers == {Bool("true"), Bool("false")}

---------------------------------------------------------------------------
(* Values the operations below are tried with *)

WriteValues(f) ==
    CASE f = "type"                -> {Str(""), Str("internal")}
      [] f = "commonName"          -> {Str(""), Str("example.com")}
      [] f = "issuerName"          -> {Str("default"), Str("my-issuer")}
      [] f = "keyName"             -> {Str("default"), Str("my-key")}
      [] f = "keyRef"              -> {Str("my-key-ref")}
      [] f = "format"              -> {Str("der")}
      [] f = "privateKeyFormat"    -> {Str("pkcs8")}
      [] f = "keyType"             -> {Str("ec")}
      [] f = "keyBits"             -> {Str("256")}
      [] f = "maxPathLength"       -> {Num("0")}
      [] f = "excludeCnFromSans"   -> {Bool("true")}
      [] f = "addBasicConstraints" -> {Bool("true")}
      [] f = "notBeforeDuration"   -> {Str("1h")}
      [] OTHER                     -> {Str("written")}

MountPaths == {"pki", "pki-int"}

---------------------------------------------------------------------------
(* Operations on the record *)

Init ==
    /\ actionType = Undefined
    /\ attrs = [f \in Attrs |-> NotSet]
    /\ backend = "pki"
    /\ caps = [c \in CapabilityPaths |-> NotResolved]
    /\ submitted = FALSE
    /\ directWrites = {}
    /\ lastOp = "create"
    /\ result = NoResult

\* this.actionType = a
SetActionType(a) ==
    /\ actionType' = Str(a)
    /\ lastOp' = "setActionType"
    /\ result' = NoResult
    /\ UNCHANGED <<attrs, backend, caps, submitted, directWrites>>

\* variant: a write to keyName lands in keyId as well
Write_keyAlias(f, v) ==
    /\ attrs' = [attrs EXCEPT ![f] = v, !["keyId"] = IF f = "keyName" THEN v ELSE @]
    /\ directWrites' = IF f \in ResponseAttrs THEN directWrites \cup {f} ELSE directWrites
    /\ lastOp' = "write"
    /\ result' = NoResult
    /\ UNCHANGED <<actionType, backend, caps, submitted>>

\* record[f] = v: every declared attribute is settable
Write(f, v) ==
    /\ attrs' = [attrs EXCEPT ![f] = v]
    /\ directWrites' = IF f \in ResponseAttrs THEN directWrites \cup {f} ELSE directWrites
    /\ lastOp' = "write"
    /\ result' = NoResult
    /\ UNCHANGED <<actionType, backend, caps, submitted>>

\* record.validate(): returns the failures, changes nothing
Validate ==
    /\ lastOp' = "validate"
    /\ result' = [NoResult EXCEPT !.isValid = validate(ModelView).isValid,
                                  !.failures = validate(ModelView).failures]
    /\ UNCHANGED <<actionType, attrs, backend, caps, submitted, directWrites>>

\* record[f]: returns the attribute's value
Read(f) ==
    /\ lastOp' = "get"
    /\ result' = [NoResult EXCEPT !.attr = f, !.value = Get(f)]
    /\ UNCHANGED <<actionType, attrs, backend, caps, submitted, directWrites>>

\* what a successful submission returns for a response attribute
ResponseValue(f) == Str("from-response")

\* one submission attempt: validate, send, and on success take over the response
Submit(ok) ==
    /\ ~submitted
    /\ lastOp' = "submit"
    /\ result' = [NoResult EXCEPT !.isValid = validate(ModelView).isValid,
                                  !.failures = validate(ModelView).failures]
    /\ IF validate(ModelView).isValid /\ ok
       THEN /\ attrs' = [f \in Attrs |->
                            IF f \in ResponseAttrs THEN ResponseValue(f) ELSE attrs[f]]
            /\ submitted' = TRUE
            /\ directWrites' = {}
       ELSE UNCHANGED <<attrs, submitted, directWrites>>
    /\ UNCHANGED <<actionType, backend, caps>>

\* secretMountPath.currentPath changes
SetMountPath(p) ==
    /\ p # backend
    /\ backend' = p
    /\ lastOp' = "setMountPath"
    /\ result' = NoResult
    /\ UNCHANGED <<actionType, attrs, caps, submitted, directWrites>>

\* a capability getter: resolve the property, compare its canCreate with true
ReadFlag(flag) ==
    LET c == FlagPath(flag)
        proxy == lazyCapabilities(c)
        value == IsTrue(getCanCreate(proxy))
    IN  /\ caps' = [caps EXCEPT ![c] =
                       [proxy EXCEPT !.first = IF caps[c] = NotResolved THEN value ELSE @]]
        /\ lastOp' = "flag"
        /\ result' = [NoResult EXCEPT !.cap = flag, !.flag = value]
        /\ UNCHANGED <<actionType, attrs, backend, submitted, directWrites>>

\* the oracle's answer for a queried path arrives
OracleFulfils(c, answer) ==
    /\ caps[c] # NotResolved
    /\ caps[c].state = "pending"
    /\ caps' = [caps EXCEPT ![c].state = "fulfilled", ![c].canCreate = answer]
    /\ lastOp' = "oracle"
    /\ result' = NoResult
    /\ UNCHANGED <<actionType, attrs, backend, submitted, directWrites>>

\* the oracle fails to resolve a queried path
OracleRejects(c) ==
    /\ caps[c] # NotResolved
    /\ caps[c].state = "pending"
    /\ caps' = [caps EXCEPT ![c].state = "rejected"]
    /\ lastOp' = "oracle"
    /\ result' = NoResult
    /\ UNCHANGED <<actionType, attrs, backend, submitted, directWrites>>

ValidationInputs == {"type", "commonName", "issuerName", "keyName", "pemBundle"}

NextValidation ==
    \/ \E a \in ActionTypes : SetActionType(a)
    \/ \E f \in ValidationInputs : \E v \in WriteValues(f) : Write(f, v)
    \/ Validate

SpecValidation == Init /\ [][NextValidation]_vars

---------------------------------------------------------------------------
(* Properties of validation *)

Validated == lastOp = "validate"

Fails(f, kind) == \E x \in result.failures : x.field = f /\ x.kind = kind

RootActions == {Str("generate-root"), Str("rotate-root")}

\* C1: validation reports a ReservedValue failure for issuerName exactly when
\* actionType is generate-root or rotate-root and issuerName is "default"; any
\* other actionType, or any other issuerName, gives no issuerName failure.
C1_IssuerNameReserved ==
    Validated =>
        /\ Fails("issuerName", "ReservedValue")
             <=> (actionType \in RootActions /\ Get("issuerName") = Str("default"))
        /\ \A x \in result.failures : x.field = "issuerName" => x.kind = "ReservedValue"

C1_Witness ==
    /\ Validated
    /\ actionType = Str("generate-root")
    /\ Get("issuerName") = Str("default")
    /\ Fails("issuerName", "ReservedValue")

\* C2: validation reports a ReservedValue failure for keyName exactly when
\* keyName is "default", whatever actionType (unset included) and the other
\* fields are.
C2_KeyNameReserved ==
    Validated =>
        (Fails("keyName", "ReservedValue") <=> Get("keyName") = Str("default"))

C2_Witness ==
    /\ Validated
    /\ actionType = Undefined
    /\ Get("keyName") = Str("default")
    /\ Get("type") = Undefined
    /\ Fails("keyName", "ReservedValue")

Blank(f) == Get(f) = Undefined \/ Get(f) = Str("")

\* C3: validation reports a MissingRequiredField failure for type when type is
\* unset or empty and for commonName when commonName is unset or empty, each
\* decided from that field alone.
C3_RequiredFields ==
    Validated =>
        /\ Fails("type", "MissingRequiredField") <=> Blank("type")
        /\ Fails("commonName", "MissingRequiredField") <=> Blank("commonName")

C3_Witness ==
    /\ Validated
    /\ Get("type") = Str("internal")
    /\ Get("commonName") = Str("")
    /\ Fails("commonName", "MissingRequiredField")
    /\ ~Fails("type", "MissingRequiredField")

ExampleRecord ==
    /\ Get("type") = Str("internal")
    /\ Get("commonName") = Str("example.com")
    /\ Get("issuerName") = Str("my-issuer")
    /\ Get("keyName") = Str("my-key")

\* C5: a record is valid iff none of the four rules fails; the record with
\* type "internal", commonName "example.com", issuerName "my-issuer" and
\* keyName "my-key" validates with zero failures for every actionType.
C5_ValidIffNoFailure ==
    Validated =>
        /\ result.isValid <=>
              /\ ~Fails("type", "MissingRequiredField")
              /\ ~Fails("commonName", "MissingRequiredField")
              /\ ~Fails("issuerName", "ReservedValue")
              /\ ~Fails("keyName", "ReservedValue")
        /\ ExampleRecord => (result.isValid /\ result.failures = {})

C5_Witness ==
    /\ Validated
    /\ ExampleRecord
    /\ actionType = Str("generate-root")
    /\ result.isValid

\* C8 as stated: with actionType import-bundle the values of type, commonName,
\* issuerName and keyName produce no validation failure, so the record is valid.
C8_IrrelevantFieldsIgnored ==
    (Validated /\ actionType = Str("import-bundle")) =>
        (result.isValid /\ result.failures = {})

\* C8 amended: with actionType import-bundle only issuerName is ignored; type or
\* commonName unset or empty still fail as MissingRequiredField and keyName
\* "default" still fails as ReservedValue, and the record is valid only without
\* those.
C8_OnlyIssuerNameIgnored ==
    (Validated /\ actionType = Str("import-bundle")) =>
        /\ ~Fails("issuerName", "ReservedValue")
        /\ result.isValid <=>
              (~Blank("type") /\ ~Blank("commonName") /\ Get("keyName") # Str("default"))

C8_Witness ==
    /\ Validated
    /\ actionType = Str("import-bundle")
    /\ Get("pemBundle") # Undefined
    /\ Get("type") = Undefined
    /\ Get("issuerName") = Str("default")
    /\ ~result.isValid
    /\ ~Fails("issuerName", "ReservedValue")

---------------------------------------------------------------------------
(* Attribute defaults *)

DefaultInputs ==
    {"keyRef", "format", "privateKeyFormat", "keyType", "keyBits", "maxPathLength",
     "excludeCnFromSans", "addBasicConstraints", "notBeforeDuration", "ttl"}

NextDefaults ==
    \/ \E f \in DefaultInputs : \E v \in WriteValues(f) : Write(f, v)
    \/ \E f \in DefaultInputs : Read(f)

SpecDefaults == Init /\ [][NextDefaults]_vars

ReadUnset(f) == lastOp = "get" /\ result.attr = f /\ attrs[f] = NotSet

\* C6: an attribute that was never set reads back its default, format "pem",
\* privateKeyFormat "der", keyType "rsa", keyBits "0" (a string),
\* maxPathLength -1, excludeCnFromSans false, notBeforeDuration "30s",
\* keyRef "default", also after writes to other attributes.
C6_Defaults ==
    /\ ReadUnset("format") => result.value = Str("pem")
    /\ ReadUnset("privateKeyFormat") => result.value = Str("der")
    /\ ReadUnset("keyType") => result.value = Str("rsa")
    /\ ReadUnset("keyBits") => result.value = Str("0")
    /\ ReadUnset("maxPathLength") => result.value = Num("-1")
    /\ ReadUnset("excludeCnFromSans") => result.value = Bool("false")
    /\ ReadUnset("notBeforeDuration") => result.value = Str("30s")
    /\ ReadUnset("keyRef") => result.value = Str("default")

C6_Witness ==
    /\ ReadUnset("keyBits")
    /\ result.value = Str("0")
    /\ attrs["keyType"] = Str("ec")
    /\ attrs["format"] = Str("der")

\* C7 as stated: addBasicConstraints, when never set, reads false.
C7_AddBasicConstraintsFalse ==
    ReadUnset("addBasicConstraints") => result.value = Bool("false")

\* C7 amended: addBasicConstraints declares no default, so when never set it
\* reads undefined, unlike excludeCnFromSans, which reads false.
C7_AddBasicConstraintsUndefined ==
    /\ ReadUnset("addBasicConstraints") => result.value = Undefined
    /\ ReadUnset("excludeCnFromSans") => result.value = Bool("false")

C7_Witness ==
    /\ ReadUnset("addBasicConstraints")
    /\ result.value = Undefined

---------------------------------------------------------------------------
(* Response attributes over the record's lifetime *)

LifecycleInputs == {"type", "commonName", "keyName"} \cup ResponseAttrs

NextLifecycle ==
    \/ \E f \in LifecycleInputs : \E v \in WriteValues(f) : Write(f, v)
    \/ Validate
    \/ \E ok \in BOOLEAN : Submit(ok)

SpecLifecycle == Init /\ [][NextLifecycle]_vars

---------------------------------------------------------------------------
(* Capability flags *)

NextCapabilities ==
    \/ Write("type", Str("internal"))
    \/ \E flag \in Flags : ReadFlag(flag)
    \/ \E c \in CapabilityPaths : \E answer \in OracleAnswers : OracleFulfils(c, answer)
    \/ \E c \in CapabilityPaths : OracleRejects(c)

SpecCapabilities == Init /\ [][NextCapabilities]_vars

\* the path property that belongs to a flag
OwnPath(flag) ==
    CASE flag = "canImportBundle"               -> "importBundlePath"
      [] flag = "canGenerateIssuerRoot"         -> "generateIssuerRootPath"
      [] flag = "canGenerateIssuerIntermediate" -> "generateIssuerCsrPath"
      [] flag = "canCrossSign"                  -> "crossSignPath"

Granted(c) ==
    /\ caps[c] # NotResolved
    /\ caps[c].state = "fulfilled"
    /\ caps[c].canCreate = Bool("true")

\* C4: a capability flag is true iff the oracle has answered canCreate = true
\* for the flag's own path; false, undefined, pending or failed answers give
\* false, and the answers for the other paths do not matter.
C4_FlagIffCanCreate ==
    lastOp = "flag" =>
        /\ result.flag <=> Granted(OwnPath(result.cap))
        /\ (Granted("importBundlePath")
              /\ \A c \in CapabilityPaths \ {"importBundlePath"} : ~Granted(c))
             => (result.flag <=> result.cap = "canImportBundle")

C4_Witness ==
    /\ lastOp = "flag"
    /\ result.cap = "canImportBundle"
    /\ result.flag
    /\ caps["generateIssuerRootPath"] # NotResolved
    /\ caps["generateIssuerRootPath"].state = "rejected"
    /\ caps["generateIssuerCsrPath"] # NotResolved
    /\ caps["generateIssuerCsrPath"].canCreate = Bool("false")
    /\ caps["crossSignPath"] # NotResolved
    /\ caps["crossSignPath"].state = "pending"

---------------------------------------------------------------------------
(* Capability results across writes to type and the mount path *)

NextCapabilityCache ==
    \/ Write("type", Str("internal"))
    \/ \E p \in MountPaths : SetMountPath(p)
    \/ \E flag \in Flags : ReadFlag(flag)
    \/ \E c \in CapabilityPaths : \E answer \in BooleanAnswers : OracleFulfils(c, answer)

SpecCapabilityCache == Init /\ [][NextCapabilityCache]_vars

ExpectedPath(c, b, t) ==
    CASE c = "importBundlePath"       -> <<b, "issuers", "import", "bundle">>
      [] c = "generateIssuerRootPath" -> <<b, "issuers", "generate", "root", Segment(t)>>
      [] c = "generateIssuerCsrPath"  -> <<b, "issuers", "generate", "intermediate", Segment(t)>>
      [] c = "crossSignPath"          -> <<b, "issuers", "cross-sign">>

====
